---- MODULE Spec2Model ----
(***************************************************************************)
(* franklin-server: the request pipeline of src/web.py (request_handler,   *)
(* resolve_host_config, update_host_config, fetch_s3, handle_404) and the  *)
(* helpers of src/util.py (CACHE_MAX_AGES, filter_headers).                *)
(*                                                                         *)
(* Strings that the code takes apart (paths) are sequences of tokens: "/", *)
(* " " and "%" are single characters, every other token is a run of        *)
(* characters that urllib.parse.quote leaves alone.  Times are seconds.    *)
(***************************************************************************)
EXTENDS Integers, Sequences, FiniteSets, TLC

\* ------------------------------------------------------------------ bounds
\* concurrent request tasks of the event loop
NReq == 2
\* the clock stops here
MaxTime == 180
\* the clock advances in these steps (seconds)
TickSteps == {60, 119}

\* ------------------------------------------------------- configuration
HOST_CACHE_TTL == 120
AWS_BUCKET == "bucket"
AWS_KEY == "access-key"
AWS_SECRET == "secret-key"
PROXY_REQUEST_HEADERS == {"Cache-Control", "If-Modified-Since", "If-None-Match"}
PROXY_RESPONSE_HEADERS == {"Content-Length", "Last-Modified", "ETag"}
DEFAULT_RESPONSE_HEADERS == ("Server" :> "franklin-server/2.0.0")

A_YEAR == 60 * 60 * 24 * 365

CACHE_MAX_AGES ==
    [ct \in {"application/atom+xml", "application/javascript",
             "application/rss+xml", "application/vnd.ms-fontobject",
             "application/x-font-ttf", "application/x-font-otf",
             "application/x-font-woff", "application/xml", "audio/mpeg",
             "audio/webm", "image/gif", "image/jpeg", "image/pjpeg",
             "image/png", "image/svg+xml", "image/x-icon",
             "text/cache-manifest", "text/css", "text/html", "video/mp4",
             "video/webm"}
        |-> IF ct = "text/html" THEN 60 * 5 ELSE A_YEAR]

\* the two templates read by request_handler and handle_404
HOST_NOT_FOUND_PAGE == "templates/404-host_not_found.html"
FILE_NOT_FOUND_PAGE == "templates/404-file_not_found.html"

\* ------------------------------------------------------------ Python values
\* None, where the code holds a path string
None == <<"None">>
\* (variant: only None counts as no path)
Falsy_NoneOnly(p) == p = None
\* bool(path) is false for None and for the empty string
Falsy(p) == p = None \/ p = <<>>

\* ------------------------------------------------------------ src/util.py
\* (variant: the listed fields that are present, empty or not)
filter_headers_KeepEmpty(headers, fields) ==
    [f \in {g \in fields : g \in DOMAIN headers} |-> headers[f]]
\* filter_headers: the listed fields that are present with a truthy value
filter_headers(headers, fields) ==
    [f \in {g \in fields : g \in DOMAIN headers /\ headers[g] # ""}
        |-> headers[f]]

\* dict.update: the entries of b win over those of a
DictUpdate(a, b) == b @@ a

\* (variant: one max-age for every type of the table)
CacheControl_AlwaysYear(content_type) ==
    IF content_type \in DOMAIN CACHE_MAX_AGES
    THEN <<"max-age=", A_YEAR>>
    ELSE <<"no-cache">>
\* the Cache-Control value of the 200 branch
CacheControl(content_type) ==
    IF content_type \in DOMAIN CACHE_MAX_AGES
       /\ CACHE_MAX_AGES[content_type] # 0
    THEN <<"max-age=", CACHE_MAX_AGES[content_type]>>
    ELSE <<"no-cache">>

\* ------------------------------------------------------------ paths
RECURSIVE lstrip(_)
\* str.lstrip('/')
lstrip(s) == IF s # <<>> /\ Head(s) = "/" THEN lstrip(Tail(s)) ELSE s

\* str.endswith('/')
endswith_slash(s) == s # <<>> /\ s[Len(s)] = "/"

\* (variant: quote(..., safe=''), which escapes "/" too)
quote_char_NoSafe(c) ==
    IF c = " " THEN <<"%", "20">>
    ELSE IF c = "%" THEN <<"%", "25">>
    ELSE IF c = "/" THEN <<"%", "2F">>
    ELSE <<c>>
\* urllib.parse.quote of one character (token): "/" and the unreserved
\* characters stay, anything else becomes %XX
quote_char(c) ==
    IF c = " " THEN <<"%", "20">>
    ELSE IF c = "%" THEN <<"%", "25">>
    ELSE <<c>>

RECURSIVE quote(_)
quote(s) == IF s = <<>> THEN <<>> ELSE quote_char(Head(s)) \o quote(Tail(s))

\* request_handler: the index.html rewrite
AppendIndex(resource_path) ==
    IF resource_path = <<>> \/ endswith_slash(resource_path)
    THEN resource_path \o <<"index.html">>
    ELSE resource_path

\* request_handler: the resource path as sent to storage
NormalizePath(resource_path) == quote(AppendIndex(resource_path))

\* request_handler: '{}/{}'.format(host_config['path'], resource_path.lstrip('/'))
ObjectKey(prefix, resource_path) == prefix \o <<"/">> \o lstrip(resource_path)

\* handle_404: '{}/404.html'.format(host_config['path'])
Custom404Key(prefix) == prefix \o <<"/", "404.html">>

\* ------------------------------------------------------------ dictionaries
EmptyDict == [k \in {} |-> ""]

\* a header is present with a truthy value
Has(headers, k) == k \in DOMAIN headers /\ headers[k] # ""

\* ------------------------------------------------------------ host configs
\* resolve_host_config: the config before the API answers
DefaultConfig == [path |-> None, custom_404 |-> TRUE]

\* json.dumps / json.loads of a host config, as stored in redis
json_dumps(config) == <<"json", config.path, config.custom_404>>
json_loads(data) == [path |-> data[2], custom_404 |-> data[3]]

\* config.update(data): the keys the API sent replace the defaults
config_update(config, data) ==
    [path |-> IF "path" \in data.keys THEN data.path ELSE config.path,
     custom_404 |-> IF "custom_404" \in data.keys THEN data.custom_404
                    ELSE config.custom_404]

\* ------------------------------------------------------------ redis
\* (variant: SET ... NX, which leaves a key that is there alone)
redis_set_IfAbsent(store, key, data, ttl, t, fill) ==
    IF key \in DOMAIN store THEN store
    ELSE (key :> [data |-> data, at |-> t, ttl |-> ttl, fill |-> fill]) @@ store
\* SET key value EX ttl at time t.  fill is history: when the API gave the
\* answer the value descends from
redis_set(store, key, data, ttl, t, fill) ==
    (key :> [data |-> data, at |-> t, ttl |-> ttl, fill |-> fill]) @@ store

\* (variant: the key is gone a second early)
Live_Early(entry, t) == t < entry.at + entry.ttl - 1
\* a key lives for ttl seconds from the time it was set
Live(entry, t) == t < entry.at + entry.ttl

\* GET key at time t finds a value: the key was set and its time is not up
redis_hit(store, key, t) == key \in DOMAIN store /\ Live(store[key], t)

\* ------------------------------------------------------------ signing
\* (variant: the method is not part of the string)
StringToSign_GetOnly(bucket, path, amz_date, method) ==
    <<"GET", "\n\n\n\nx-amz-date:", amz_date, "\n", "/", bucket, "/">>
        \o lstrip(path)
\* generate_signature: HMAC-SHA1 under AWS_SECRET of the string to sign
StringToSign(bucket, path, amz_date, method) ==
    <<method, "\n\n\n\nx-amz-date:", amz_date, "\n", "/", bucket, "/">>
        \o lstrip(path)

generate_signature(bucket, path, amz_date, method) ==
    <<"b64-hmac-sha1", AWS_SECRET, StringToSign(bucket, path, amz_date, method)>>

\* fetch_s3: the request sent to storage at time t
fetch_s3(bucket, path, method, headers, signed, t) ==
    LET hosted == DictUpdate(headers, "Host" :> <<bucket, ".s3.amazonaws.com">>)
        auth == ("Authorization" :>
                    <<"AWS ", AWS_KEY, ":",
                      generate_signature(bucket, path, t, "GET")>>)
                @@ ("x-amz-date" :> t)
    IN  [method |-> method,
         url |-> <<"https://s3.amazonaws.com/">> \o lstrip(path),
         headers |-> IF signed THEN DictUpdate(hosted, auth) ELSE hosted]

\* ------------------------------------------------------------ responses
\* web.Response(...) as built on each branch
HostNotFoundResponse ==
    [status |-> 404, body |-> HOST_NOT_FOUND_PAGE, content_type |-> "text/html",
     headers |-> DEFAULT_RESPONSE_HEADERS]

FileNotFoundResponse ==
    [status |-> 404, body |-> FILE_NOT_FOUND_PAGE, content_type |-> "text/html",
     headers |-> DEFAULT_RESPONSE_HEADERS]

\* (variant: status=404 forgotten)
Custom404Response_200(resource) ==
    [status |-> 200, body |-> resource.data, content_type |-> "text/html",
     headers |-> DEFAULT_RESPONSE_HEADERS]
Custom404Response(resource) ==
    [status |-> 404, body |-> resource.data, content_type |-> "text/html",
     headers |-> DEFAULT_RESPONSE_HEADERS]

\* (variant: the 304 goes through the response policy)
NotModifiedResponse_Policy ==
    [status |-> 304, body |-> "", content_type |-> "",
     headers |-> DictUpdate(DEFAULT_RESPONSE_HEADERS,
                            "Cache-Control" :> <<"no-cache">>)]
NotModifiedResponse ==
    [status |-> 304, body |-> "", content_type |-> "",
     headers |-> DEFAULT_RESPONSE_HEADERS]

\* (variant: the default headers are not merged in)
OkResponse_NoDefaults(resource) ==
    [status |-> 200, body |-> resource.data,
     content_type |-> resource.headers["Content-Type"],
     headers |-> DictUpdate(filter_headers(resource.headers, PROXY_RESPONSE_HEADERS),
                    "Cache-Control" :>
                        CacheControl(resource.headers["Content-Type"]))]
OkResponse(resource) ==
    LET response_headers ==
            DictUpdate(filter_headers(resource.headers, PROXY_RESPONSE_HEADERS),
                       DEFAULT_RESPONSE_HEADERS)
    IN  [status |-> 200, body |-> resource.data,
         content_type |-> resource.headers["Content-Type"],
         headers |-> DictUpdate(response_headers,
                        "Cache-Control" :>
                            CacheControl(resource.headers["Content-Type"]))]

\* ------------------------------------------------------------ environment
Reqs == 1..NReq

Hosts == {"example.com", "unknown.test"}

\* storage prefixes the API hands out
Proj == <<"/", "proj">>
Site == <<"/", "site">>

\* request.match_info['resource_path'] of the inbound requests
ResourcePaths ==
    {<<>>, <<"img.png">>, <<"docs", "/">>, <<"/", "missing.html">>,
     <<"a", " ", "b">>, <<"100", "%">>, <<"%", "20">>, <<" ", "/">>}

\* inbound request headers for a hostname
InboundHeaders(h) ==
    {("Host" :> h),
     ("Host" :> h) @@ ("If-None-Match" :> "etag") @@ ("Cache-Control" :> "")
        @@ ("Cookie" :> "sid")}

\* JSON bodies of the API's 200 answers: the keys present and their values
NoData == [keys |-> {}, path |-> <<>>, custom_404 |-> TRUE]
ApiData ==
    {[keys |-> {"path"}, path |-> Proj, custom_404 |-> TRUE],
     [keys |-> {"path", "custom_404"}, path |-> Proj, custom_404 |-> FALSE],
     [keys |-> {"path"}, path |-> Site, custom_404 |-> TRUE],
     [keys |-> {"path"}, path |-> <<>>, custom_404 |-> TRUE],
     [keys |-> {"path"}, path |-> None, custom_404 |-> TRUE],
     NoData}

\* answers of GET /v1/domains/?domain=<hostname>: the API knows deployments
\* of example.com only (they come and go), and none of unknown.test
ApiAnswers(h) ==
    (IF h = "example.com" THEN {[status |-> 200, data |-> d] : d \in ApiData} ELSE {})
    \cup {[status |-> st, data |-> NoData] : st \in {404, 500}}

\* headers storage sends besides Content-Type
OriginHeaderSets ==
    {("Content-Length" :> "10") @@ ("Last-Modified" :> "date")
        @@ ("Server" :> "AmazonS3") @@ ("x-amz-request-id" :> "id"),
     ("Content-Length" :> "5") @@ ("ETag" :> "") @@ ("Set-Cookie" :> "c")}

\* content types storage declares: those of the table and two outside it
ContentTypes == DOMAIN CACHE_MAX_AGES \cup {"application/json", "binary/octet-stream"}

\* a conditional request is one that carries a validator
Conditional(s3req) ==
    Has(s3req.headers, "If-None-Match") \/ Has(s3req.headers, "If-Modified-Since")

\* what storage may answer to a request
OriginAnswers(s3req) ==
    {[status |-> 200, headers |-> ("Content-Type" :> ct) @@ hs, data |-> "object"]
        : ct \in ContentTypes, hs \in OriginHeaderSets}
    \cup {[status |-> st, headers |-> ("Content-Type" :> "application/xml"),
           data |-> "error"] : st \in {403, 404}}
    \cup (IF Conditional(s3req)
          THEN {[status |-> 304, headers |-> ("ETag" :> "etag"), data |-> ""]}
          ELSE {})

\* what storage may answer to the fetch of <path>/404.html
ProbeAnswers ==
    {[status |-> 200, headers |-> ("Content-Type" :> "text/html"),
      data |-> "custom-404-page"]}
    \cup {[status |-> st, headers |-> ("Content-Type" :> "application/xml"),
           data |-> "error"] : st \in {403, 404}}

\* ------------------------------------------------------------ state
VARIABLES
    now,          \* the clock, in seconds
    cache,        \* redis: hostname -> [data, at, ttl, fill], the last SET of each key
    pc,           \* where each request task is suspended
    request,      \* the inbound request, until the main fetch is answered
    hostname,     \* request_handler's hostname
    host_config,  \* request_handler's host_config
    path,         \* request_handler's path: the object key, while it is fetched
    s3request,    \* the storage request a task is waiting on
    resource,     \* the answer to the main fetch
    probe,        \* handle_404's resource: the answer to the 404.html fetch
    response,     \* the web.Response returned
    calls,        \* history: the outbound calls a task has made, in order
    filled,       \* history: when the API gave the answer host_config descends from
    wrote,        \* history: the values a task has SET in redis, in order
    written,      \* history: per hostname, who SET it last and the last API fill
    args,         \* a direct call of generate_signature or fetch_s3: its arguments
    ret           \* what the direct call returned

vars == <<now, cache, pc, request, hostname, host_config, path, s3request,
          resource, probe, response, calls, filled, wrote, written, args, ret>>

\* the variables of the request tasks, and those of a direct call
tasks == <<pc, request, hostname, host_config, path, s3request, resource,
           probe, response, calls, filled, wrote>>
direct == <<args, ret>>

NoRequest == [headers |-> EmptyDict, resource_path |-> <<>>]
NoS3Request == [method |-> "", url |-> <<>>, headers |-> EmptyDict]
NoResource == [status |-> 0, headers |-> EmptyDict, data |-> ""]
NoResponse == [status |-> 0, body |-> "", content_type |-> "", headers |-> EmptyDict]

\* no request yet, redis empty
TasksInit ==
    /\ cache = EmptyDict
    /\ pc = [r \in Reqs |-> "idle"]
    /\ request = [r \in Reqs |-> NoRequest]
    /\ hostname = [r \in Reqs |-> ""]
    /\ host_config = [r \in Reqs |-> DefaultConfig]
    /\ path = [r \in Reqs |-> <<>>]
    /\ s3request = [r \in Reqs |-> NoS3Request]
    /\ resource = [r \in Reqs |-> NoResource]
    /\ probe = [r \in Reqs |-> NoResource]
    /\ response = [r \in Reqs |-> NoResponse]
    /\ calls = [r \in Reqs |-> <<>>]
    /\ filled = [r \in Reqs |-> 0]
    /\ wrote = [r \in Reqs |-> <<>>]
    /\ written = EmptyDict

Init ==
    /\ now = 0
    /\ TasksInit
    /\ args = <<>>
    /\ ret = <<>>

\* ------------------------------------------------------------ actions
\* history of a SET of key by task r, in resolve_host_config ("fill") or in
\* update_host_config ("update")
Recorded(r, key, op, data) ==
    /\ wrote' = [wrote EXCEPT ![r] = Append(@, data)]
    /\ written' = (key :> [by |-> r, op |-> op,
                           fill |-> IF op = "fill" THEN data
                                    ELSE written[key].fill]) @@ written

\* request_handler from the return of resolve_host_config to the main fetch:
\* the host-not-found page, or the storage request for the object
Proceed(r, req, config) ==
    /\ host_config' = [host_config EXCEPT ![r] = config]
    /\ IF Falsy(config.path)
       THEN /\ pc' = [pc EXCEPT ![r] = "done"]
            /\ response' = [response EXCEPT ![r] = HostNotFoundResponse]
            /\ request' = [request EXCEPT ![r] = NoRequest]
            /\ UNCHANGED <<path, s3request>>
       ELSE LET key == ObjectKey(config.path, NormalizePath(req.resource_path)) IN
            /\ pc' = [pc EXCEPT ![r] = "fetch"]
            /\ response' = response
            /\ request' = [request EXCEPT ![r] = req]
            /\ path' = [path EXCEPT ![r] = key]
            /\ s3request' = [s3request EXCEPT ![r] =
                    fetch_s3(AWS_BUCKET, key, "GET",
                             filter_headers(req.headers, PROXY_REQUEST_HEADERS),
                             TRUE, now)]

\* the outbound calls of Proceed
ProceedCalls(config) == IF Falsy(config.path) THEN <<>> ELSE <<"s3">>

\* (variant: the SET is never sent)
update_host_config_Dropped(store, key, config, t, fill) == store
\* update_host_config(app, hostname, config)
update_host_config(store, key, config, t, fill) ==
    redis_set(store, key, json_dumps(config), HOST_CACHE_TTL, t, fill)

\* a request arrives; resolve_host_config reads redis: on a hit the handler
\* goes on with the stored config, on a miss it calls the API
Begin(r, h, rp, hd) ==
    /\ pc[r] = "idle"
    /\ \A q \in Reqs : q < r => pc[q] # "idle"
    /\ hostname' = [hostname EXCEPT ![r] = hd["Host"]]
    /\ LET req == [headers |-> hd, resource_path |-> rp] IN
        IF redis_hit(cache, hd["Host"], now)
        THEN LET config == json_loads(cache[hd["Host"]].data) IN
             /\ Proceed(r, req, config)
             /\ calls' = [calls EXCEPT ![r] = <<"redis.get">> \o ProceedCalls(config)]
             /\ filled' = [filled EXCEPT ![r] = cache[hd["Host"]].fill]
        ELSE /\ pc' = [pc EXCEPT ![r] = "api"]
             /\ request' = [request EXCEPT ![r] = req]
             /\ calls' = [calls EXCEPT ![r] = <<"redis.get", "api">>]
             /\ UNCHANGED <<host_config, path, s3request, response, filled>>
    /\ UNCHANGED <<now, cache, resource, probe, wrote, written>>
    /\ UNCHANGED direct

\* the config resolve_host_config builds from the API's answer
ResolvedConfig(answer) ==
    IF answer.status = 200 THEN config_update(DefaultConfig, answer.data)
    ELSE DefaultConfig

\* (variant: only a 200 is stored)
ApiRespond_FoundOnly(r, answer) ==
    /\ pc[r] = "api"
    /\ LET config == ResolvedConfig(answer) IN
        /\ cache' = IF answer.status = 200
                    THEN redis_set(cache, hostname[r], json_dumps(config),
                                   HOST_CACHE_TTL, now, now)
                    ELSE cache
        /\ Recorded(r, hostname[r], "fill", json_dumps(config))
        /\ filled' = [filled EXCEPT ![r] = now]
        /\ Proceed(r, request[r], config)
        /\ calls' = [calls EXCEPT ![r] =
                @ \o <<IF answer.status = 200 THEN "api:200" ELSE "api:non-200",
                       "redis.set">> \o ProceedCalls(config)]
    /\ UNCHANGED <<now, hostname, resource, probe>>
    /\ UNCHANGED direct
\* (variant: the config is returned and never stored)
ApiRespond_Unstored(r, answer) ==
    /\ pc[r] = "api"
    /\ LET config == ResolvedConfig(answer) IN
        /\ cache' = cache
        /\ Recorded(r, hostname[r], "fill", json_dumps(config))
        /\ filled' = [filled EXCEPT ![r] = now]
        /\ Proceed(r, request[r], config)
        /\ calls' = [calls EXCEPT ![r] =
                @ \o <<IF answer.status = 200 THEN "api:200" ELSE "api:non-200",
                       "redis.set">> \o ProceedCalls(config)]
    /\ UNCHANGED <<now, hostname, resource, probe>>
    /\ UNCHANGED direct
\* the API answers: resolve_host_config stores the config and returns it
ApiRespond(r, answer) ==
    /\ pc[r] = "api"
    /\ LET config == ResolvedConfig(answer) IN
        /\ cache' = redis_set(cache, hostname[r], json_dumps(config),
                              HOST_CACHE_TTL, now, now)
        /\ Recorded(r, hostname[r], "fill", json_dumps(config))
        /\ filled' = [filled EXCEPT ![r] = now]
        /\ Proceed(r, request[r], config)
        /\ calls' = [calls EXCEPT ![r] =
                @ \o <<IF answer.status = 200 THEN "api:200" ELSE "api:non-200",
                       "redis.set">> \o ProceedCalls(config)]
    /\ UNCHANGED <<now, hostname, resource, probe>>
    /\ UNCHANGED direct

\* (variant: handle_404 probes whatever the config says)
S3Respond_AlwaysProbe(r, answer) ==
    /\ pc[r] = "fetch"
    /\ resource' = [resource EXCEPT ![r] = answer]
    /\ request' = [request EXCEPT ![r] = NoRequest]
    /\ path' = [path EXCEPT ![r] = <<>>]
    /\ IF answer.status = 304
       THEN /\ pc' = [pc EXCEPT ![r] = "done"]
            /\ response' = [response EXCEPT ![r] = NotModifiedResponse]
            /\ s3request' = [s3request EXCEPT ![r] = NoS3Request]
            /\ calls' = calls
       ELSE IF answer.status # 200
       THEN IF TRUE
            THEN /\ pc' = [pc EXCEPT ![r] = "probe"]
                 /\ s3request' = [s3request EXCEPT ![r] =
                        fetch_s3(AWS_BUCKET, Custom404Key(host_config[r].path),
                                 "GET", EmptyDict, TRUE, now)]
                 /\ calls' = [calls EXCEPT ![r] = @ \o <<"s3">>]
                 /\ response' = response
            ELSE /\ pc' = [pc EXCEPT ![r] = "render"]
                 /\ s3request' = [s3request EXCEPT ![r] = NoS3Request]
                 /\ UNCHANGED <<calls, response>>
       ELSE /\ pc' = [pc EXCEPT ![r] = "done"]
            /\ response' = [response EXCEPT ![r] = OkResponse(answer)]
            /\ s3request' = [s3request EXCEPT ![r] = NoS3Request]
            /\ calls' = calls
    /\ UNCHANGED <<now, cache, hostname, host_config, probe, filled, wrote,
                   written>>
    /\ UNCHANGED direct
\* storage answers the main fetch: 304, 200, or into handle_404, which
\* probes for the custom page when the config says to try
S3Respond(r, answer) ==
    /\ pc[r] = "fetch"
    /\ resource' = [resource EXCEPT ![r] = answer]
    /\ request' = [request EXCEPT ![r] = NoRequest]
    /\ path' = [path EXCEPT ![r] = <<>>]
    /\ IF answer.status = 304
       THEN /\ pc' = [pc EXCEPT ![r] = "done"]
            /\ response' = [response EXCEPT ![r] = NotModifiedResponse]
            /\ s3request' = [s3request EXCEPT ![r] = NoS3Request]
            /\ calls' = calls
       ELSE IF answer.status # 200
       THEN IF host_config[r].custom_404
            THEN /\ pc' = [pc EXCEPT ![r] = "probe"]
                 /\ s3request' = [s3request EXCEPT ![r] =
                        fetch_s3(AWS_BUCKET, Custom404Key(host_config[r].path),
                                 "GET", EmptyDict, TRUE, now)]
                 /\ calls' = [calls EXCEPT ![r] = @ \o <<"s3">>]
                 /\ response' = response
            ELSE /\ pc' = [pc EXCEPT ![r] = "render"]
                 /\ s3request' = [s3request EXCEPT ![r] = NoS3Request]
                 /\ UNCHANGED <<calls, response>>
       ELSE /\ pc' = [pc EXCEPT ![r] = "done"]
            /\ response' = [response EXCEPT ![r] = OkResponse(answer)]
            /\ s3request' = [s3request EXCEPT ![r] = NoS3Request]
            /\ calls' = calls
    /\ UNCHANGED <<now, cache, hostname, host_config, probe, filled, wrote,
                   written>>
    /\ UNCHANGED direct

\* (variant: handle_404 stores the flag itself as soon as it knows it)
ProbeRespond_Persisting(r, answer) ==
    /\ pc[r] = "probe"
    /\ probe' = [probe EXCEPT ![r] = answer]
    /\ s3request' = [s3request EXCEPT ![r] = NoS3Request]
    /\ LET has_custom_404 == answer.status = 200
           config == [host_config[r] EXCEPT !.custom_404 = has_custom_404]
       IN
        /\ host_config' = [host_config EXCEPT ![r] = config]
        /\ cache' = update_host_config(cache, hostname[r], config, now,
                                       filled[r])
        /\ Recorded(r, hostname[r], "update", json_dumps(config))
        /\ calls' = [calls EXCEPT ![r] = @ \o <<"update">>]
        /\ IF has_custom_404
           THEN /\ response' = [response EXCEPT ![r] = Custom404Response(answer)]
                /\ pc' = [pc EXCEPT ![r] = "done"]
           ELSE /\ pc' = [pc EXCEPT ![r] = "render"]
                /\ response' = response
    /\ UNCHANGED <<now, request, hostname, path, resource, filled>>
    /\ UNCHANGED direct
\* storage answers the probe: handle_404 records whether the custom page
\* exists; with it the handler returns it and stores the config
ProbeRespond(r, answer) ==
    /\ pc[r] = "probe"
    /\ probe' = [probe EXCEPT ![r] = answer]
    /\ s3request' = [s3request EXCEPT ![r] = NoS3Request]
    /\ LET has_custom_404 == answer.status = 200
           config == [host_config[r] EXCEPT !.custom_404 = has_custom_404]
       IN
        /\ host_config' = [host_config EXCEPT ![r] = config]
        /\ IF has_custom_404
           THEN /\ response' = [response EXCEPT ![r] = Custom404Response(answer)]
                /\ cache' = update_host_config(cache, hostname[r], config, now,
                                               filled[r])
                /\ Recorded(r, hostname[r], "update", json_dumps(config))
                /\ calls' = [calls EXCEPT ![r] = @ \o <<"update">>]
                /\ pc' = [pc EXCEPT ![r] = "done"]
           ELSE /\ pc' = [pc EXCEPT ![r] = "render"]
                /\ UNCHANGED <<response, cache, calls, wrote, written>>
    /\ UNCHANGED <<now, request, hostname, path, resource, filled>>
    /\ UNCHANGED direct

\* handle_404 has read the default template: the handler stores the config
\* and returns the default page
Render(r) ==
    /\ pc[r] = "render"
    /\ response' = [response EXCEPT ![r] = FileNotFoundResponse]
    /\ cache' = update_host_config(cache, hostname[r], host_config[r], now,
                                   filled[r])
    /\ Recorded(r, hostname[r], "update", json_dumps(host_config[r]))
    /\ calls' = [calls EXCEPT ![r] = @ \o <<"update">>]
    /\ pc' = [pc EXCEPT ![r] = "done"]
    /\ UNCHANGED <<now, request, hostname, host_config, path, s3request,
                   resource, probe, filled>>
    /\ UNCHANGED direct

\* the response has been sent, or the exception has left request_handler,
\* and the task is gone
Finish(r) ==
    /\ pc[r] \in {"done", "failed"}
    /\ pc' = [pc EXCEPT ![r] = "idle"]
    /\ hostname' = [hostname EXCEPT ![r] = ""]
    /\ host_config' = [host_config EXCEPT ![r] = DefaultConfig]
    /\ resource' = [resource EXCEPT ![r] = NoResource]
    /\ probe' = [probe EXCEPT ![r] = NoResource]
    /\ response' = [response EXCEPT ![r] = NoResponse]
    /\ calls' = [calls EXCEPT ![r] = <<>>]
    /\ filled' = [filled EXCEPT ![r] = 0]
    /\ wrote' = [wrote EXCEPT ![r] = <<>>]
    /\ UNCHANGED <<now, cache, request, path, s3request, written>>
    /\ UNCHANGED direct

\* time passes
Tick(d) ==
    /\ now + d <= MaxTime
    /\ now' = now + d
    /\ UNCHANGED <<cache, pc, request, hostname, host_config, path, s3request,
                   resource, probe, response, calls, filled, wrote, written>>
    /\ UNCHANGED direct

\* no request is being handled
Quiet == \A q \in Reqs : pc[q] = "idle"

\* requests one after the other, every shape of input
Next ==
    \/ \E r \in Reqs, h \in Hosts, rp \in ResourcePaths :
            \E hd \in InboundHeaders(h) : Quiet /\ Begin(r, h, rp, hd)
    \/ \E r \in Reqs : \E answer \in ApiAnswers(hostname[r]) : ApiRespond(r, answer)
    \/ \E r \in Reqs : \E answer \in OriginAnswers(s3request[r]) : S3Respond(r, answer)
    \/ \E r \in Reqs, answer \in ProbeAnswers : ProbeRespond(r, answer)
    \/ \E r \in Reqs : Render(r)
    \/ \E r \in Reqs : Finish(r)
    \/ \E d \in TickSteps : Tick(d)

Spec == Init /\ [][Next]_vars

\* ------------------------------------------------------------ failures
\* an exception leaves request_handler: nothing is returned
Raise(r, call) ==
    /\ pc' = [pc EXCEPT ![r] = "failed"]
    /\ calls' = [calls EXCEPT ![r] = @ \o <<call>>]
    /\ request' = [request EXCEPT ![r] = NoRequest]
    /\ path' = [path EXCEPT ![r] = <<>>]
    /\ s3request' = [s3request EXCEPT ![r] = NoS3Request]
    /\ UNCHANGED <<now, hostname, resource, response, filled, wrote, written>>
    /\ UNCHANGED direct

\* (variant: the failed lookup is stored as "host unknown")
ApiFail_Sentinel(r) ==
    /\ pc[r] = "api"
    /\ Raise(r, "api:error")
    /\ cache' = redis_set(cache, hostname[r], json_dumps(DefaultConfig),
                          HOST_CACHE_TTL, now, now)
    /\ UNCHANGED <<host_config, probe>>
\* session.get raises (the API cannot be reached, or times out): the
\* exception leaves resolve_host_config before the SET
ApiFail(r) ==
    /\ pc[r] = "api"
    /\ Raise(r, "api:error")
    /\ UNCHANGED <<cache, host_config, probe>>

\* session.request raises in the main fetch
S3Fail(r) ==
    /\ pc[r] = "fetch"
    /\ Raise(r, "s3:error")
    /\ UNCHANGED <<cache, host_config, probe>>

\* session.request raises in the fetch of <path>/404.html: the exception
\* leaves handle_404 before custom_404 is assigned
ProbeFail(r) ==
    /\ pc[r] = "probe"
    /\ Raise(r, "s3:error")
    /\ UNCHANGED <<cache, host_config, probe>>

\* how update_host_config may fail: no connection from the pool (raises),
\* or a SET that redis does not carry out (its reply is never awaited)
UpdateFailures == {"pool", "set"}

\* update_host_config fails after handle_404 has returned resp
FailedUpdate(r, resp, how) ==
    /\ UNCHANGED <<cache, wrote, written>>
    /\ IF how = "pool"
       THEN /\ pc' = [pc EXCEPT ![r] = "failed"]
            /\ calls' = [calls EXCEPT ![r] = @ \o <<"update:error">>]
            /\ response' = response
       ELSE /\ pc' = [pc EXCEPT ![r] = "done"]
            /\ calls' = [calls EXCEPT ![r] = @ \o <<"update:lost">>]
            /\ response' = [response EXCEPT ![r] = resp]

\* the default page is ready and update_host_config fails
RenderUpdateFail(r, how) ==
    /\ pc[r] = "render"
    /\ FailedUpdate(r, FileNotFoundResponse, how)
    /\ UNCHANGED <<now, request, hostname, host_config, path, s3request,
                   resource, probe, filled>>
    /\ UNCHANGED direct

\* the custom page is ready and update_host_config fails
ProbeUpdateFail(r, answer, how) ==
    /\ pc[r] = "probe"
    /\ answer.status = 200
    /\ probe' = [probe EXCEPT ![r] = answer]
    /\ s3request' = [s3request EXCEPT ![r] = NoS3Request]
    /\ host_config' = [host_config EXCEPT ![r].custom_404 = TRUE]
    /\ FailedUpdate(r, Custom404Response(answer), how)
    /\ UNCHANGED <<now, request, hostname, path, resource, filled>>
    /\ UNCHANGED direct

\* requests one after the other, with the API, storage and redis failing
FailNext ==
    \/ Next
    \/ \E r \in Reqs : ApiFail(r)
    \/ \E r \in Reqs : S3Fail(r)
    \/ \E r \in Reqs : ProbeFail(r)
    \/ \E r \in Reqs, how \in UpdateFailures : RenderUpdateFail(r, how)
    \/ \E r \in Reqs, answer \in ProbeAnswers, how \in UpdateFailures :
            ProbeUpdateFail(r, answer, how)

FailSpec == Init /\ [][FailNext]_vars

\* ------------------------------------------------------------ concurrency
\* the request tasks interleaved at their awaits, all for one hostname and
\* one resource, with one answer of each kind

ConcHost == "example.com"
ConcPath == <<"/", "missing.html">>

\* the API knows the deployment under /proj, or the one under /site, or none
ConcApiAnswers ==
    {a \in ApiAnswers(ConcHost) :
        \/ a.status = 404
        \/ a.status = 200 /\ a.data.keys = {"path"} /\ a.data.path \in {Proj, Site}}

\* storage has the object, or has it not
ConcOriginAnswers(s3req) ==
    {a \in OriginAnswers(s3req) :
        \/ a.status = 404
        \/ /\ a.status = 200
           /\ a.headers["Content-Type"] = "text/html"
           /\ "ETag" \in DOMAIN a.headers}

ConcProbeAnswers == {a \in ProbeAnswers : a.status \in {200, 404}}

ConcNext ==
    \/ \E r \in Reqs : Begin(r, ConcHost, ConcPath, ("Host" :> ConcHost))
    \/ \E r \in Reqs : \E answer \in ConcApiAnswers : ApiRespond(r, answer)
    \/ \E r \in Reqs : \E answer \in ConcOriginAnswers(s3request[r]) :
            S3Respond(r, answer)
    \/ \E r \in Reqs, answer \in ConcProbeAnswers : ProbeRespond(r, answer)
    \/ \E r \in Reqs : Render(r)
    \/ \E r \in Reqs : Finish(r)
    \/ Tick(HOST_CACHE_TTL)

ConcSpec == Init /\ [][ConcNext]_vars

\* ------------------------------------------------------------ direct calls
\* generate_signature and fetch_s3 called on their own, over every argument

\* the longest object key of a direct call, in characters
MaxKeyLen == 2

Buckets == {AWS_BUCKET, "other-bucket"}
Methods == {"GET", "HEAD"}
\* x-amz-date is the clock at the second of the call
AmzDates == {0, 60}
\* object keys, character by character
KeyChars == {"/", "a", "b"}
Keys == UNION {[1..n -> KeyChars] : n \in 0..MaxKeyLen}

SignInputs ==
    [bucket : Buckets, path : Keys, amz_date : AmzDates, method : Methods]

\* generate_signature(bucket, path, amz_date, method) of one argument tuple
Signature(a) == generate_signature(a.bucket, a.path, a.amz_date, a.method)

\* two argument tuples, not yet signed
SignInit ==
    /\ now = 0
    /\ TasksInit
    /\ args \in SignInputs \X SignInputs
    /\ ret = <<>>

\* both tuples are signed
Sign ==
    /\ ret = <<>>
    /\ ret' = <<Signature(args[1]), Signature(args[2])>>
    /\ UNCHANGED <<now, cache, tasks, written, args>>

SignSpec == SignInit /\ [][Sign]_vars

\* headers a caller may hand to fetch_s3
CallerHeaders ==
    {EmptyDict,
     ("If-None-Match" :> "etag"),
     ("Host" :> <<"elsewhere.example">>),
     ("Authorization" :> <<"Basic ", "credentials">>) @@ ("x-amz-date" :> 999)}

FetchInputs ==
    [bucket : Buckets, path : Keys, method : Methods, headers : CallerHeaders,
     signed : BOOLEAN]

\* the arguments of one call of fetch_s3, at some second
FetchInit ==
    /\ now \in AmzDates
    /\ TasksInit
    /\ args \in FetchInputs
    /\ ret = <<>>

\* fetch_s3 builds its request
Fetch ==
    /\ ret = <<>>
    /\ ret' = fetch_s3(args.bucket, args.path, args.method, args.headers,
                       args.signed, now)
    /\ UNCHANGED <<now, cache, tasks, written, args>>

FetchSpec == FetchInit /\ [][Fetch]_vars

\* ------------------------------------------------------------ properties
Range(f) == {f[i] : i \in DOMAIN f}

\* the step in which task r takes up a request for hostname h
Begins(r, h) == pc[r] = "idle" /\ pc'[r] # "idle" /\ hostname'[r] = h

\* the step in which task r returns its response
Returns(r) == pc[r] # "done" /\ pc'[r] = "done"

\* C1: a request whose resolved config has no path (in particular after any
\* non-200 answer of the API) ends with the host-not-found 404 and has sent
\* nothing to storage, whether the config came from the API or from redis
C1_HostUnknown ==
    \A r \in Reqs :
        /\ "api:non-200" \in Range(calls[r]) => host_config[r].path = None
        /\ (pc[r] \notin {"idle", "api"} /\ host_config[r].path \in {None, <<>>}) =>
                /\ pc[r] = "done"
                /\ response[r].status = 404
                /\ response[r].body = HOST_NOT_FOUND_PAGE
                /\ response[r].content_type = "text/html"
                /\ "s3" \notin Range(calls[r])
                /\ s3request[r] = NoS3Request
                /\ resource[r] = NoResource

\* a request answered host-not-found from a cached config of an earlier one
C1_Witness ==
    \E r \in Reqs :
        /\ pc[r] = "done"
        /\ calls[r] = <<"redis.get">>
        /\ host_config[r].path = None
        /\ response[r] = HostNotFoundResponse

\* C2: a read of a hostname strictly before T+TTL of the entry last written
\* for it calls no API and returns exactly the stored config
C2_ServedBeforeExpiry ==
    [][\A r \in Reqs, h \in Hosts :
          (Begins(r, h) /\ h \in DOMAIN cache
           /\ now < cache[h].at + cache[h].ttl) =>
                /\ pc'[r] # "api"
                /\ "api" \notin Range(calls'[r])
                /\ host_config'[r] = json_loads(cache[h].data)]_vars

\* a request served at second 119 from the entry written at second 0
C2_Witness ==
    \E r \in Reqs :
        /\ pc[r] = "fetch"
        /\ calls[r] = <<"redis.get", "s3">>
        /\ hostname[r] \in DOMAIN cache
        /\ cache[hostname[r]].at = 0
        /\ s3request[r].headers["x-amz-date"] = HOST_CACHE_TTL - 1
        /\ host_config[r] = json_loads(cache[hostname[r]].data)

\* C3: a read at or after T+TTL, T being when the API gave the answer the
\* entry descends from, misses the cache and calls the API
C3_ExpiredAfterFillTtl ==
    [][\A r \in Reqs, h \in Hosts :
          (Begins(r, h) /\ h \in DOMAIN cache
           /\ now >= cache[h].fill + HOST_CACHE_TTL) =>
                pc'[r] = "api"]_vars

\* the custom_404 flag redis holds for a hostname at time t
Stored404(store, h, t) ==
    redis_hit(store, h, t) /\ json_loads(store[h].data).custom_404

\* C4: main fetch neither 200 nor 304 and the probe answered 200: the
\* response is a 404 with the probe's body as text/html, and when the request
\* returns redis holds custom_404 = true for the hostname
C4_CustomPage ==
    [][\A r \in Reqs :
          (Returns(r) /\ resource'[r].status \notin {0, 200, 304}
           /\ probe'[r].status = 200) =>
                /\ response'[r].status = 404
                /\ response'[r].body = probe'[r].data
                /\ response'[r].content_type = "text/html"
                /\ redis_hit(cache', hostname[r], now')
                /\ Stored404(cache', hostname[r], now')
                /\ json_loads(cache'[hostname[r]].data).path = host_config[r].path]_vars

\* a request that returned the custom page
C4_Witness ==
    \E r \in Reqs :
        /\ pc[r] = "done"
        /\ resource[r].status = 404
        /\ probe[r].status = 200
        /\ response[r].body = "custom-404-page"
        /\ Stored404(cache, hostname[r], now)

\* C5: main fetch neither 200 nor 304 and the probe answered anything but
\* 200: the response is the default file-not-found 404, and when the request
\* returns redis holds custom_404 = false for the hostname
C5_DefaultPage ==
    [][\A r \in Reqs :
          (Returns(r) /\ resource'[r].status \notin {0, 200, 304}
           /\ probe'[r].status \notin {0, 200}) =>
                /\ response'[r].status = 404
                /\ response'[r].body = FILE_NOT_FOUND_PAGE
                /\ response'[r].content_type = "text/html"
                /\ redis_hit(cache', hostname[r], now')
                /\ ~Stored404(cache', hostname[r], now')]_vars

\* a request that probed in vain and returned the default page
C5_Witness ==
    \E r \in Reqs :
        /\ pc[r] = "done"
        /\ resource[r].status = 403
        /\ probe[r].status = 404
        /\ calls[r] = <<"redis.get", "s3", "s3", "update">>
        /\ response[r] = FileNotFoundResponse
        /\ redis_hit(cache, hostname[r], now)
        /\ ~Stored404(cache, hostname[r], now)

\* C6: a 304 from storage is returned as an empty 304 with the default
\* headers alone; handle_404 is not entered and redis is not written
C6_NotModified ==
    [][\A r \in Reqs :
          (pc[r] = "fetch" /\ pc'[r] # "fetch" /\ resource'[r].status = 304) =>
                /\ pc'[r] = "done"
                /\ response'[r].status = 304
                /\ response'[r].body = ""
                /\ DOMAIN response'[r].headers = {"Server"}
                /\ response'[r].headers = DEFAULT_RESPONSE_HEADERS
                /\ probe'[r] = NoResource
                /\ calls'[r] = calls[r]
                /\ cache' = cache]_vars

\* a conditional request answered 304
C6_Witness ==
    \E r \in Reqs :
        /\ pc[r] = "done"
        /\ resource[r].status = 304
        /\ response[r].status = 304
        /\ "update" \notin Range(calls[r])

\* C7: on a 200 the response is a 200 with the origin's body, and its
\* headers are Server, Cache-Control and those of Content-Length,
\* Last-Modified, ETag the origin sent non-empty, with the origin's values
C7_AllowListedHeaders ==
    \A r \in Reqs :
        (pc[r] = "done" /\ resource[r].status = 200) =>
            /\ response[r].status = 200
            /\ response[r].body = resource[r].data
            /\ response[r].content_type = resource[r].headers["Content-Type"]
            /\ DOMAIN response[r].headers \subseteq
                    {"Content-Length", "Last-Modified", "ETag", "Server",
                     "Cache-Control"}
            /\ \A k \in DOMAIN response[r].headers \ {"Server", "Cache-Control"} :
                    /\ k \in DOMAIN resource[r].headers
                    /\ resource[r].headers[k] # ""
                    /\ response[r].headers[k] = resource[r].headers[k]
            /\ response[r].headers["Server"] = "franklin-server/2.0.0"

\* a 200 whose origin sent a Server header, an empty ETag and a cookie
C7_Witness ==
    \E r \in Reqs :
        /\ pc[r] = "done"
        /\ resource[r].status = 200
        /\ "Set-Cookie" \in DOMAIN resource[r].headers
        /\ resource[r].headers["ETag"] = ""
        /\ DOMAIN response[r].headers = {"Content-Length", "Server", "Cache-Control"}

\* C8: Cache-Control of a 200 is max-age=300 for text/html, max-age=31536000
\* for the other types of the table and no-cache for any other type
C8_CachePolicy ==
    \A r \in Reqs :
        (pc[r] = "done" /\ resource[r].status = 200) =>
            LET ct == resource[r].headers["Content-Type"] IN
            response[r].headers["Cache-Control"] =
                IF ct = "text/html" THEN <<"max-age=", 300>>
                ELSE IF ct \in DOMAIN CACHE_MAX_AGES THEN <<"max-age=", 31536000>>
                ELSE <<"no-cache">>

\* the image/png scenario
C8_Witness ==
    \E r \in Reqs :
        /\ pc[r] = "done"
        /\ resource[r].status = 200
        /\ resource[r].headers["Content-Type"] = "image/png"
        /\ response[r].headers["Cache-Control"] = <<"max-age=", 31536000>>

\* C9 as claimed: every response carries Server and Cache-Control
C9_ServerAndCacheControl ==
    \A r \in Reqs :
        pc[r] = "done" =>
            /\ Has(response[r].headers, "Server")
            /\ "Cache-Control" \in DOMAIN response[r].headers

\* C9: every response carries the fixed Server header; Cache-Control is
\* carried by the 200 responses and by no other
C9_ServerAlways ==
    \A r \in Reqs :
        pc[r] = "done" =>
            /\ "Server" \in DOMAIN response[r].headers
            /\ response[r].headers["Server"] = "franklin-server/2.0.0"
            /\ response[r].status \in {200, 304, 404}
            /\ "Cache-Control" \in DOMAIN response[r].headers
                    <=> response[r].status = 200

\* a custom 404 page returned with the Server header alone
C9_Witness ==
    \E r \in Reqs :
        /\ pc[r] = "done"
        /\ response[r].status = 404
        /\ probe[r].status = 200
        /\ DOMAIN response[r].headers = {"Server"}

\* no character of the path is one quote escapes
Unreserved(resource_path) ==
    \A i \in DOMAIN resource_path : resource_path[i] \notin {" ", "%"}

\* C10 as claimed: normalizing the normalized resource path of any request
\* gives the same path, hence the same object key
C10_Idempotent ==
    \A r \in Reqs :
        pc[r] = "fetch" =>
            LET once == NormalizePath(request[r].resource_path) IN
            /\ NormalizePath(once) = once
            /\ path[r] = ObjectKey(host_config[r].path, NormalizePath(once))

\* C10: for a resource path without characters that quote escapes,
\* normalizing the normalized path gives the same path and object key; the
\* index.html rewrite is idempotent on every path; prefix /site and the empty
\* path give the key /site/index.html
C10_IdempotentUnreserved ==
    \A r \in Reqs :
        pc[r] = "fetch" =>
            LET raw == request[r].resource_path
                once == NormalizePath(raw)
            IN
            /\ Unreserved(raw) =>
                    /\ NormalizePath(once) = once
                    /\ path[r] = ObjectKey(host_config[r].path, NormalizePath(once))
            /\ AppendIndex(AppendIndex(raw)) = AppendIndex(raw)
            /\ path[r] = ObjectKey(host_config[r].path, once)
            /\ (raw = <<>> /\ host_config[r].path = Site) =>
                    path[r] = <<"/", "site", "/", "index.html">>

\* the empty path under /site
C10_Witness ==
    \E r \in Reqs :
        /\ pc[r] = "fetch"
        /\ request[r].resource_path = <<>>
        /\ host_config[r].path = Site
        /\ path[r] = <<"/", "site", "/", "index.html">>

\* the object keys p and q are the same up to leading "/"
SameKey(p, q) ==
    \E i \in 0..Len(p), j \in 0..Len(q) :
        /\ \A k \in 1..i : p[k] = "/"
        /\ \A k \in 1..j : q[k] = "/"
        /\ SubSeq(p, i + 1, Len(p)) = SubSeq(q, j + 1, Len(q))

\* C11 as claimed: the same arguments give the same signature, and arguments
\* that differ in bucket, key, method or timestamp give different strings to
\* sign and different signatures
C11_Sensitive ==
    ret # <<>> =>
        /\ args[1] = args[2] => ret[1] = ret[2]
        /\ args[1] # args[2] =>
                /\ ret[1][3] # ret[2][3]
                /\ ret[1] # ret[2]

\* C11: two signatures (and the strings signed) are equal exactly when the
\* arguments agree in bucket, method and timestamp and the keys are the same
\* up to leading "/"
C11_SensitiveUpToLeadingSlashes ==
    ret # <<>> =>
        LET a == args[1]
            b == args[2]
            same == /\ a.bucket = b.bucket
                    /\ a.method = b.method
                    /\ a.amz_date = b.amz_date
                    /\ SameKey(a.path, b.path)
        IN  /\ same <=> ret[1][3] = ret[2][3]
            /\ same <=> ret[1] = ret[2]
            /\ ret[1][2] = AWS_SECRET

\* the keys /a and a, signed alike
C11_Witness ==
    /\ ret # <<>>
    /\ args[1].path = <<"/", "a">>
    /\ args[2] = [args[1] EXCEPT !.path = <<"a">>]
    /\ ret[1] = ret[2]

\* the last outbound call of a task
LastCall(cs) == IF cs = <<>> THEN "" ELSE cs[Len(cs)]

\* the step in which task r makes (or ends) the outbound call named
Calls(r, call) == calls'[r] # calls[r] /\ LastCall(calls'[r]) = call

\* C12 as claimed: when update_host_config fails, on the pool or on the SET,
\* the request still returns the 404 that handle_404 computed, and redis is
\* left as it was
C12_UpdateFailureNonFatal ==
    [][\A r \in Reqs :
          (Calls(r, "update:error") \/ Calls(r, "update:lost")) =>
                /\ pc'[r] = "done"
                /\ response'[r].status = 404
                /\ response'[r].body \in {FILE_NOT_FOUND_PAGE, probe'[r].data}
                /\ cache' = cache]_vars

\* C13: a transport failure of the API call, of the main fetch or of the
\* probe ends the request in failure and writes nothing to redis (after a
\* failed API call the hostname has no entry), and a failed request makes no
\* further call and no write
C13_FailureEndsRequest ==
    [][\A r \in Reqs :
          /\ (Calls(r, "api:error") \/ Calls(r, "s3:error")) =>
                /\ pc'[r] = "failed"
                /\ response'[r] = NoResponse
                /\ cache' = cache
          /\ Calls(r, "api:error") =>
                ~(hostname[r] \in DOMAIN cache'
                  /\ now' < cache'[hostname[r]].at + cache'[hostname[r]].ttl)
          /\ pc[r] = "failed" =>
                /\ pc'[r] \in {"failed", "idle"}
                /\ calls'[r] \in {calls[r], <<>>}
                /\ cache' = cache]_vars

\* a request whose probe failed, with the entry of its hostname still
\* saying that a custom page may exist
C13_Witness ==
    \E r \in Reqs :
        /\ pc[r] = "failed"
        /\ calls[r] = <<"redis.get", "s3", "s3", "s3:error">>
        /\ resource[r].status = 404
        /\ hostname[r] \in DOMAIN cache
        /\ json_loads(cache[hostname[r]].data).custom_404

\* tasks r and q handle requests for one hostname and both missed the cache
BothMissed(r, q) ==
    /\ r # q
    /\ hostname[r] # ""
    /\ hostname[r] = hostname[q]
    /\ "api" \in Range(calls[r])
    /\ "api" \in Range(calls[q])

\* task r has the API's answer
Resolved(r) == "redis.set" \in Range(calls[r])

\* C14: of two requests that both missed the cache for a hostname (the
\* second was not held back by the first), each goes on with the config it
\* resolved itself and returns a response, and once both have their answers
\* redis holds an entry for the hostname: one that one of the two wrote,
\* unless a third request has written since
C14_MissesNotDeduplicated ==
    \A r \in Reqs, q \in Reqs :
        BothMissed(r, q) =>
            /\ Resolved(r) =>
                    /\ pc[r] \in {"fetch", "probe", "render", "done"}
                    /\ wrote[r] # <<>>
                    /\ json_loads(wrote[r][1]).path = host_config[r].path
                    /\ pc[r] = "done" => response[r].status \in {200, 304, 404}
            /\ (Resolved(r) /\ Resolved(q)) =>
                    /\ hostname[r] \in DOMAIN cache
                    /\ written[hostname[r]].by \in {r, q} =>
                            cache[hostname[r]].data
                                \in Range(wrote[r]) \cup Range(wrote[q])

\* two requests that called the API in the same second, before either had
\* filled the cache, got different answers, and the later one's is stored
C14_Witness ==
    \E r \in Reqs, q \in Reqs :
        /\ BothMissed(r, q)
        /\ now = 0
        /\ Resolved(r) /\ Resolved(q)
        /\ host_config[r].path = Proj
        /\ host_config[q].path = Site
        /\ cache[hostname[r]].data = wrote[q][1]
        /\ pc[r] = "fetch" /\ pc[q] = "fetch"

\* the flag a request's handle_404 ends with: a custom page exists if the
\* probe was made and answered 200
Flag(r) == probe[r].status = 200

\* tasks r and q have both returned from the 404 handling of one hostname
BothHandled404(r, q) ==
    /\ r # q
    /\ pc[r] = "done" /\ pc[q] = "done"
    /\ hostname[r] = hostname[q]
    /\ LastCall(calls[r]) = "update"
    /\ LastCall(calls[q]) = "update"

\* C15: once two concurrent 404 handlings for a hostname have completed, the
\* stored custom_404 is the flag of the request whose update_host_config
\* ran last, one of the two flags the requests got from their own probes
\* (unless a third request has written since)
C15_LastWriterWins ==
    \A r \in Reqs, q \in Reqs :
        BothHandled404(r, q) =>
            LET h == hostname[r]
                w == written[h]
            IN  w.by \in {r, q} =>
                    /\ w.op = "update"
                    /\ json_loads(cache[h].data).custom_404 = Flag(w.by)
                    /\ json_loads(cache[h].data).custom_404 \in {Flag(r), Flag(q)}
                    /\ cache[h].data = wrote[w.by][Len(wrote[w.by])]

\* two handlings whose probes disagreed: the first to update found the
\* custom page, the last one did not, and the flag stored is false
C15_Witness ==
    \E r \in Reqs, q \in Reqs :
        /\ BothHandled404(r, q)
        /\ Flag(r) /\ ~Flag(q)
        /\ probe[q].status = 404
        /\ written[hostname[r]].by = q
        /\ ~json_loads(cache[hostname[r]].data).custom_404

\* C16: the path stored for a hostname by update_host_config is the path
\* stored by the most recent API fill for that hostname
C16_PathFromLastFill ==
    [][\A r \in Reqs :
          Calls(r, "update") =>
                json_loads(cache'[hostname[r]].data).path =
                    json_loads(written[hostname[r]].fill).path]_vars

\* how many times a task has made the outbound call named
Count(cs, call) == Cardinality({i \in DOMAIN cs : cs[i] = call})

\* C17: after a main fetch that is neither 200 nor 304 the probe for
\* <path>/404.html is sent exactly when the config's custom_404 is true; with
\* custom_404 false the request makes the main fetch alone, returns the
\* default file-not-found 404 and custom_404 stays false, in the task and in
\* redis
C17_ProbeIffFlag ==
    [][\A r \in Reqs :
          /\ (pc[r] = "fetch" /\ pc'[r] \notin {"fetch", "failed"}
               /\ resource'[r].status \notin {200, 304}) =>
                IF host_config[r].custom_404
                THEN /\ pc'[r] = "probe"
                     /\ calls'[r] = calls[r] \o <<"s3">>
                     /\ s3request'[r].url =
                            <<"https://s3.amazonaws.com/">>
                                \o Tail(host_config[r].path) \o <<"/", "404.html">>
                ELSE /\ pc'[r] = "render"
                     /\ calls'[r] = calls[r]
                     /\ s3request'[r] = NoS3Request
          /\ (Returns(r) /\ resource'[r].status \notin {0, 200, 304}
               /\ probe'[r] = NoResource /\ LastCall(calls'[r]) = "update") =>
                /\ ~host_config[r].custom_404
                /\ Count(calls'[r], "s3") = 1
                /\ response'[r].status = 404
                /\ response'[r].body = FILE_NOT_FOUND_PAGE
                /\ ~host_config'[r].custom_404
                /\ ~json_loads(cache'[hostname[r]].data).custom_404]_vars

\* a request served from an entry that says no custom page exists: one
\* fetch, the default page
C17_Witness ==
    \E r \in Reqs :
        /\ pc[r] = "done"
        /\ calls[r] = <<"redis.get", "s3", "update">>
        /\ resource[r].status = 404
        /\ probe[r] = NoResource
        /\ response[r] = FileNotFoundResponse
        /\ ~host_config[r].custom_404
        /\ ~json_loads(cache[hostname[r]].data).custom_404

\* redis holds the "host unknown" config for hostname h
Sentinel(store, h) ==
    h \in DOMAIN store /\ store[h].data = <<"json", <<"None">>, TRUE>>

\* C18: a non-200 answer of the API is stored as the "host unknown" config
\* with a TTL of HOST_CACHE_TTL seconds; a request that arrives while it is
\* there gets the host-not-found 404 with no call but the read of redis, and
\* one that arrives when the TTL is over calls the API again
C18_NegativeCaching ==
    [][\A r \in Reqs :
          /\ (pc[r] = "api" /\ "api:non-200" \in Range(calls'[r])) =>
                /\ Sentinel(cache', hostname[r])
                /\ cache'[hostname[r]].at = now
                /\ cache'[hostname[r]].ttl = HOST_CACHE_TTL
                /\ pc'[r] = "done"
          /\ \A h \in Hosts :
                (Begins(r, h) /\ Sentinel(cache, h)) =>
                    IF now < cache[h].at + HOST_CACHE_TTL
                    THEN /\ pc'[r] = "done"
                         /\ calls'[r] = <<"redis.get">>
                         /\ response'[r].status = 404
                         /\ response'[r].body = HOST_NOT_FOUND_PAGE
                    ELSE /\ pc'[r] = "api"
                         /\ calls'[r] = <<"redis.get", "api">>]_vars

\* the last second of a "host unknown" stored at second 0: the request is
\* answered from it
C18_Witness ==
    \E r \in Reqs :
        /\ pc[r] = "done"
        /\ calls[r] = <<"redis.get">>
        /\ Sentinel(cache, hostname[r])
        /\ cache[hostname[r]].at = 0
        /\ now = HOST_CACHE_TTL - 1
        /\ response[r].body = HOST_NOT_FOUND_PAGE

Ordered(cs) ==
    /\ cs # <<>> => cs[1] = "redis.get"
    /\ \A i \in DOMAIN cs :
          /\ cs[i] = "redis.get" => i = 1
          /\ cs[i] = "api" => i = 2
          /\ cs[i] \in {"api:200", "api:non-200"} => i = 3
          /\ cs[i] = "redis.set" => i = 4
          /\ cs[i] = "s3" =>
                \/ i = 2
                \/ i > 4 /\ cs[4] = "redis.set"
                \/ i > 2 /\ cs[i - 1] = "s3"
          /\ cs[i] = "update" => i = Len(cs) /\ cs[i - 1] = "s3"
    /\ Count(cs, "s3") <= 2
    /\ Count(cs, "update") <= 1

\* C20: in every request the host is resolved before any storage fetch, there
\* are at most two fetches and the second only after the main fetch answered
\* neither 200 nor 304, nothing touches redis between the main fetch and
\* update_host_config, and update_host_config runs exactly once, as the last
\* call before the 404 is returned, on that branch and on no other
C20_OrderedAndBounded ==
    [][/\ \A r \in Reqs :
            LET cs == calls'[r] IN
            /\ Ordered(cs)
            /\ Count(cs, "s3") = 2 => resource'[r].status \notin {0, 200, 304}
            /\ "update" \in Range(cs) =>
                    /\ pc'[r] = "done"
                    /\ response'[r].status = 404
                    /\ resource'[r].status \notin {0, 200, 304}
            /\ pc'[r] = "done" =>
                    Count(cs, "update") =
                        IF resource'[r].status \in {0, 200, 304} THEN 0 ELSE 1
       /\ cache' # cache =>
            \E r \in Reqs : Calls(r, "update") \/ pc[r] = "api"]_vars

\* a request that went through every step: miss, API, SET, main fetch,
\* probe, update
C20_Witness ==
    \E r \in Reqs :
        /\ pc[r] = "done"
        /\ calls[r] = <<"redis.get", "api", "api:200", "redis.set", "s3", "s3",
                        "update">>
        /\ resource[r].status = 403
        /\ probe[r].status = 404
        /\ response[r].status = 404

====
